---- MODULE Spec2Model ----
(***************************************************************************)
(* chat2api-CLI: the Credential Store (src/chat.py, class Config), the     *)
(* request-key-rewrite middleware (src/middleware/apikey_mapper.py), the   *)
(* streaming response reader (src/chat.py, send_message) and the chat      *)
(* session loop with the endpoint switch (src/chat.py, main).              *)
(*                                                                         *)
(* Python dicts keep insertion order, and json.dump / json.load keep it    *)
(* too, so every dict is a sequence of entries with pairwise distinct      *)
(* names: assigning to an existing name keeps its position, a new name     *)
(* goes to the end, del closes the gap.                                    *)
(***************************************************************************)
EXTENDS Integers, Sequences, FiniteSets, TLC

VARIABLES
    config,                \* Config.config: the in-memory configuration dict
    tokens,                \* Config.tokens: name -> upstream token value
    apikeys,               \* Config.apikeys: name -> {key, token_name}
    config_file,           \* config.json on disk
    tokens_file,           \* tokens.json on disk (the middleware reads it)
    apikeys_file,          \* apikeys.json on disk (the middleware reads it)
    token_txt,             \* data/token.txt: the lines of the token log
    current_model,         \* main(): session model
    current_stream,        \* main(): streaming flag
    conversation_history,  \* main(): role-tagged entries
    ret,                   \* the last Credential Store call and what it returned
    mw,                    \* the last middleware dispatch: request in, request out
    rd,                    \* the streaming reader: lines, position, accumulators
    network,               \* the HTTP requests the last operation issued, in order
    running                \* main(): the loop has not been left

vars == <<config, tokens, apikeys, config_file, tokens_file, apikeys_file,
          token_txt, current_model, current_stream, conversation_history,
          ret, mw, rd, network, running>>

storeVars == <<config, tokens, apikeys, config_file, tokens_file, apikeys_file,
               token_txt>>
sessionVars == <<current_model, current_stream, conversation_history>>
loopVars == <<network, running>>

(***************************************************************************)
(* Bounds of the model and the small input sets.                           *)
(***************************************************************************)
MaxLog == 2           \* lines kept in data/token.txt before add_token is cut off
MaxKeyParts == 2      \* distinct random parts secrets.choice can produce
MaxHeaders == 2       \* headers of one inbound request
MaxLines == 4         \* lines of one streamed response
MaxHistory == 3       \* entries of the Conversation History before a turn is cut off

None == "null"        \* Python None / JSON null
Absent == "<absent>"  \* a key the dict does not hold

TokenNames == {"t1", "t2", "auto"}
TokenValues == {"eyJ-A", "eyJ-B"}
ApiKeyNames == {"my-app"}

\* json.load / json.dump of a file: what is on disk, by kind.
\*   missing  - the file does not exist
\*   garbage  - the file exists and json.load raises JSONDecodeError
\*   ioerror  - the file exists and open() or read() raises OSError
\*   scalar   - the file parses, to a number, a string, true, false or null
\*   list     - the file parses, to a JSON array (not the expected object)
\*   dict     - the file parses to a JSON object; items are its entries in order
NoFile == [kind |-> "missing", items |-> <<>>]
JsonDump(d) == [kind |-> "dict", items |-> d]

(***************************************************************************)
(* Ordered dicts.                                                          *)
(***************************************************************************)
Has(d, k) == \E i \in 1..Len(d) : d[i].name = k
IndexOf(d, k) == CHOOSE i \in 1..Len(d) : d[i].name = k
Entry(d, k) == d[IndexOf(d, k)]
\* d[k] = e on a dict: in place when k is present, at the end otherwise
Put(d, e) ==
    IF Has(d, e.name)
    THEN [i \in 1..Len(d) |-> IF d[i].name = e.name THEN e ELSE d[i]]
    ELSE Append(d, e)
\* Del that drops the first entry, whatever its name
DelFirst(d, k) == SubSeq(d, 2, Len(d))

\* del d[k]
Del(d, k) ==
    LET i == IndexOf(d, k)
    IN  SubSeq(d, 1, i - 1) \o SubSeq(d, i + 1, Len(d))

\* s.startswith(p)
StartsWith(s, p) == Len(s) >= Len(p) /\ SubSeq(s, 1, Len(p)) = p

\* Config.get(key, default) on the three keys config.json holds
ConfigGet(c, key, default) ==
    LET v == CASE key = "api_endpoint" -> c.api_endpoint
               [] key = "default_model" -> c.default_model
               [] key = "active_token" -> c.active_token
    IN  IF v = Absent THEN default ELSE v

DefaultConfig ==
    [api_endpoint |-> "http://localhost:5005",
     default_model |-> "gpt-3.5-turbo",
     active_token |-> None]

Idle == [op |-> "none"]
MwIdle == [op |-> "none"]
RdIdle == [status |-> "off"]

(***************************************************************************)
(* Credential Store                                                        *)
(***************************************************************************)
save_config == config_file' = JsonDump(<<config'>>)
save_tokens == tokens_file' = JsonDump(tokens')
save_apikeys == apikeys_file' = JsonDump(apikeys')

\* sync_tokens_to_server / sync_apikeys_to_server: nothing at the default
\* endpoint, else one POST whose outcome changes no state of this process
\* (any error is caught and reported)
SyncRequests(cfg, kind) ==
    LET endpoint == ConfigGet(cfg, "api_endpoint", "http://localhost:5005")
    IN  IF endpoint = "http://localhost:5005"
        THEN <<>>
        ELSE <<[method |-> "POST", url |-> endpoint \o "/admin/sync/" \o kind]>>

\* get_active_token without its first branch: the first token, always
GetActiveTokenFirst(cfg, toks) ==
    IF Len(toks) > 0 THEN toks[1].value ELSE None

\* Config.get_active_token: the value to authenticate with, or None
GetActiveToken(cfg, toks) ==
    LET active == ConfigGet(cfg, "active_token", None)
    IN  IF active # None /\ active # "" /\ Has(toks, active)
        THEN Entry(toks, active).value
        ELSE IF Len(toks) > 0 THEN toks[1].value ELSE None

\* Config.add_token(name, token). fs_ok: DATA_DIR.mkdir and the append to
\* token.txt succeed; when they do not, the OSError leaves add_token after
\* the tokens were saved and before the sync.
add_token(name, token, fs_ok) ==
    /\ fs_ok => Len(token_txt) < MaxLog
    /\ tokens' = Put(tokens, [name |-> name, value |-> token])
    /\ save_tokens
    /\ token_txt' = IF fs_ok THEN Append(token_txt, token) ELSE token_txt
    /\ ret' = [op |-> "add_token", name |-> name, value |-> token,
               raised |-> ~fs_ok]
    /\ network' = IF fs_ok THEN SyncRequests(config, "tokens") ELSE <<>>
    /\ UNCHANGED <<config, apikeys, config_file, apikeys_file, sessionVars, mw, rd,
                   running>>

\* Config.remove_token(name)
remove_token(name) ==
    /\ IF Has(tokens, name)
       THEN /\ tokens' = Del(tokens, name)
            /\ save_tokens
            /\ ret' = [op |-> "remove_token", name |-> name, result |-> TRUE,
                       removed |-> Entry(tokens, name).value]
       ELSE /\ UNCHANGED <<tokens, tokens_file>>
            /\ ret' = [op |-> "remove_token", name |-> name, result |-> FALSE,
                       removed |-> None]
    /\ network' = <<>>
    /\ UNCHANGED <<config, apikeys, config_file, apikeys_file, token_txt,
                   sessionVars, mw, rd, running>>

\* use_token without the membership test
use_token_unchecked(name) ==
    /\ config' = [config EXCEPT !.active_token = name]
    /\ save_config
    /\ ret' = [op |-> "use_token", name |-> name, result |-> TRUE]
    /\ network' = <<>>
    /\ UNCHANGED <<tokens, apikeys, tokens_file, apikeys_file, token_txt,
                   sessionVars, mw, rd, running>>

\* Config.use_token(name)
use_token(name) ==
    /\ IF Has(tokens, name)
       THEN /\ config' = [config EXCEPT !.active_token = name]
            /\ save_config
            /\ ret' = [op |-> "use_token", name |-> name, result |-> TRUE]
       ELSE /\ UNCHANGED <<config, config_file>>
            /\ ret' = [op |-> "use_token", name |-> name, result |-> FALSE]
    /\ network' = <<>>
    /\ UNCHANGED <<tokens, apikeys, tokens_file, apikeys_file, token_txt,
                   sessionVars, mw, rd, running>>

\* random_part of generate_apikey: 48 characters drawn by secrets.choice. The
\* model draws it from a small set and leaves out the draw that repeats a key
\* the collection still holds (62^48 possible parts).
RandomParts == {"K" \o ToString(i) : i \in 1..MaxKeyParts}
KeysInUse == {apikeys[i].key : i \in 1..Len(apikeys)}

\* the dict generate_apikey stores under name ("created" holds a wall-clock
\* timestamp that nothing reads back; it is left out)
NewApikey(name, api_key, cfg) ==
    [name |-> name, isdict |-> TRUE, key |-> api_key,
     token_name |-> ConfigGet(cfg, "active_token", "auto")]

\* Config.generate_apikey(name)
generate_apikey(name, random_part) ==
    LET api_key == "sk-" \o random_part
    IN  /\ api_key \notin KeysInUse
        /\ apikeys' = Put(apikeys, NewApikey(name, api_key, config))
        /\ save_apikeys
        /\ ret' = [op |-> "generate_apikey", name |-> name, result |-> api_key]
        /\ network' = SyncRequests(config, "apikeys")
        /\ UNCHANGED <<config, tokens, config_file, tokens_file, token_txt,
                       sessionVars, mw, rd, running>>

\* Config.remove_apikey(name)
remove_apikey(name) ==
    /\ IF Has(apikeys, name)
       THEN /\ apikeys' = Del(apikeys, name)
            /\ save_apikeys
            /\ ret' = [op |-> "remove_apikey", name |-> name, result |-> TRUE]
       ELSE /\ UNCHANGED <<apikeys, apikeys_file>>
            /\ ret' = [op |-> "remove_apikey", name |-> name, result |-> FALSE]
    /\ network' = <<>>
    /\ UNCHANGED <<config, tokens, config_file, tokens_file, token_txt,
                   sessionVars, mw, rd, running>>

\* reset that does not wait for the answer
reset_unasked(confirmed, fs_ok) ==
    /\ conversation_history' = <<>>
    /\ current_model' = "gpt-3.5-turbo"
    /\ current_stream' = TRUE
    /\ tokens' = <<>>
    /\ apikeys' = <<>>
    /\ config' = [config EXCEPT !.active_token = None]
    /\ save_tokens
    /\ save_apikeys
    /\ save_config
    /\ token_txt' = IF fs_ok THEN <<>> ELSE token_txt
    /\ ret' = [op |-> "reset", confirmed |-> confirmed]
    /\ network' = <<>>
    /\ UNCHANGED <<mw, rd, running>>

\* main(), command /reset. confirmed: the answer to Confirm.ask; fs_ok: the
\* truncation of token.txt succeeds (its failure is swallowed)
reset(confirmed, fs_ok) ==
    /\ IF confirmed
       THEN /\ conversation_history' = <<>>
            /\ current_model' = "gpt-3.5-turbo"
            /\ current_stream' = TRUE
            /\ tokens' = <<>>
            /\ apikeys' = <<>>
            /\ config' = [config EXCEPT !.active_token = None]
            /\ save_tokens
            /\ save_apikeys
            /\ save_config
            /\ token_txt' = IF fs_ok THEN <<>> ELSE token_txt
       ELSE UNCHANGED <<storeVars, sessionVars>>
    /\ ret' = [op |-> "reset", confirmed |-> confirmed]
    /\ network' = <<>>
    /\ UNCHANGED <<mw, rd, running>>

\* a call of Config.get_active_token()
get_active_token ==
    /\ ret' = [op |-> "get_active_token", result |-> GetActiveToken(config, tokens)]
    /\ network' = <<>>
    /\ UNCHANGED <<storeVars, sessionVars, mw, rd, running>>

(***************************************************************************)
(* Request-key-rewrite middleware                                          *)
(***************************************************************************)
\* what json.load gives for a file that parses: dict, list or scalar
EmptyDict == [kind |-> "dict", items |-> <<>>]
Raised == [kind |-> "raised", items |-> <<>>]

\* one "if file.exists(): json.load(f)" of load_mappings
LoadJson(file) ==
    CASE file.kind = "missing" -> EmptyDict
      [] file.kind \in {"garbage", "ioerror"} -> Raised
      [] OTHER -> file

\* APIKeyMapperMiddleware.load_mappings: both files, or ({}, {}) on any error
load_mappings(af, tf) ==
    LET a == LoadJson(af)
        t == LoadJson(tf)
    IN  IF a = Raised \/ t = Raised
        THEN [apikeys |-> EmptyDict, tokens |-> EmptyDict]
        ELSE [apikeys |-> a, tokens |-> t]

\* "token_name in tokens" on what tokens.json parsed to
InTokens(token_name, toks) ==
    CASE toks.kind = "dict" -> Has(toks.items, token_name)
      [] toks.kind = "list" -> \E i \in 1..Len(toks.items) : toks.items[i] = token_name
      [] OTHER -> FALSE

\* Resolve with the fallback taken for every name that is no token, not only
\* for "auto"
ResolveAnyName(token_name, toks, api_key) ==
    IF InTokens(token_name, toks)
    THEN IF toks.kind = "dict"
         THEN [outcome |-> "return", value |-> Entry(toks.items, token_name).value]
         ELSE [outcome |-> "raised", value |-> api_key]
    ELSE IF Len(toks.items) > 0
         THEN IF toks.kind = "dict"
              THEN [outcome |-> "return", value |-> toks.items[1].value]
              ELSE [outcome |-> "raised", value |-> api_key]
         ELSE [outcome |-> "continue", value |-> api_key]

\* Resolve whose "auto" fallback takes the last token instead of the first
ResolveLast(token_name, toks, api_key) ==
    IF InTokens(token_name, toks)
    THEN IF toks.kind = "dict"
         THEN [outcome |-> "return", value |-> Entry(toks.items, token_name).value]
         ELSE [outcome |-> "raised", value |-> api_key]
    ELSE IF token_name = "auto" /\ Len(toks.items) > 0
         THEN IF toks.kind = "dict"
              THEN [outcome |-> "return", value |-> toks.items[Len(toks.items)].value]
              ELSE [outcome |-> "raised", value |-> api_key]
         ELSE [outcome |-> "continue", value |-> api_key]

\* Lines 55-60 for the entry that carries the key: the token it resolves to,
\* "continue" when neither branch is taken, "raised" when tokens.json parsed
\* to a list (tokens[token_name] and tokens.values() raise on it)
Resolve(token_name, toks, api_key) ==
    IF InTokens(token_name, toks)
    THEN IF toks.kind = "dict"
         THEN [outcome |-> "return", value |-> Entry(toks.items, token_name).value]
         ELSE [outcome |-> "raised", value |-> api_key]
    ELSE IF token_name = "auto" /\ Len(toks.items) > 0
         THEN IF toks.kind = "dict"
              THEN [outcome |-> "return", value |-> toks.items[1].value]
              ELSE [outcome |-> "raised", value |-> api_key]
         ELSE [outcome |-> "continue", value |-> api_key]

\* the for loop of map_apikey_to_token from entry i on: what it returns (the
\* key itself when the loop ends without a match), or "raised"
RECURSIVE FindToken(_, _, _, _)
FindToken(api_key, entries, toks, i) ==
    IF i > Len(entries)
    THEN [outcome |-> "return", value |-> api_key]
    ELSE LET data == entries[i]
             token_name == IF data.token_name = Absent THEN "auto"
                           ELSE data.token_name
             r == Resolve(token_name, toks, api_key)
         IN  IF data.isdict /\ data.key = api_key /\ r.outcome # "continue"
             THEN r
             ELSE FindToken(api_key, entries, toks, i + 1)

\* the body of the try block of map_apikey_to_token
TryMap(api_key, af, tf) ==
    LET m == load_mappings(af, tf)
    IN  IF m.apikeys.kind = "scalar" \/ m.tokens.kind = "scalar"
        THEN [outcome |-> "raised", value |-> api_key]      \* len() of a scalar
        ELSE IF m.apikeys.kind # "dict"
        THEN [outcome |-> "raised", value |-> api_key]      \* no .items()
        ELSE FindToken(api_key, m.apikeys.items, m.tokens, 1)

\* map_apikey_to_token with an except clause that lets the error through
MapApikeyUncaught(api_key, af, tf) ==
    IF api_key = "" \/ ~StartsWith(api_key, "sk-")
    THEN [value |-> api_key, escaped |-> FALSE, read |-> FALSE]
    ELSE LET r == TryMap(api_key, af, tf)
         IN  [value |-> r.value, escaped |-> r.outcome = "raised", read |-> TRUE]

\* APIKeyMapperMiddleware.map_apikey_to_token: value is what it returns,
\* escaped says whether an exception leaves it ("except Exception" catches
\* whatever the try block raises), read whether the files were loaded
map_apikey_to_token(api_key, af, tf) ==
    IF api_key = "" \/ ~StartsWith(api_key, "sk-")
    THEN [value |-> api_key, escaped |-> FALSE, read |-> FALSE]
    ELSE LET r == TryMap(api_key, af, tf)
         IN  IF r.outcome = "raised"
             THEN [value |-> api_key, escaped |-> FALSE, read |-> TRUE]
             ELSE [value |-> r.value, escaped |-> FALSE, read |-> TRUE]

\* bytes.lower() on the header names of the model
Lower(name) ==
    CASE name = "Authorization" -> "authorization"
      [] name = "X-Request-Id" -> "x-request-id"
      [] OTHER -> name

\* request.headers.get(key, default): the first header of that name
HeadersGet(headers, key, default) ==
    IF \E i \in 1..Len(headers) : headers[i].name = key
    THEN headers[CHOOSE i \in 1..Len(headers) :
                    /\ headers[i].name = key
                    /\ \A j \in 1..(i - 1) : headers[j].name # key].value
    ELSE default

\* NewHeaders writing the bare token, without the scheme
NewHeadersBare(headers, mapped_token) ==
    [i \in 1..Len(headers) |->
        IF Lower(headers[i].name) = "authorization"
        THEN [name |-> headers[i].name, value |-> mapped_token]
        ELSE headers[i]]

\* NewHeaders that moves the rewritten Authorization headers to the end
NewHeadersMoved(headers, mapped_token) ==
    SelectSeq(headers, LAMBDA h : Lower(h.name) # "authorization")
        \o [i \in 1..Len(SelectSeq(headers,
                                  LAMBDA h : Lower(h.name) = "authorization")) |->
              [name |-> SelectSeq(headers,
                                  LAMBDA h : Lower(h.name) = "authorization")[i].name,
               value |-> "Bearer " \o mapped_token]]

\* the rebuilt request.scope["headers"]
NewHeaders(headers, mapped_token) ==
    [i \in 1..Len(headers) |->
        IF Lower(headers[i].name) = "authorization"
        THEN [name |-> headers[i].name, value |-> "Bearer " \o mapped_token]
        ELSE headers[i]]

\* Forward with the scheme compared as "bearer ", whatever its case
ForwardAnyCase(headers, af, tf) ==
    LET auth_header == HeadersGet(headers, "authorization", "")
        through == [forwarded |-> headers, called |-> TRUE, read |-> FALSE]
    IN  IF ~(StartsWith(auth_header, "Bearer ") \/ StartsWith(auth_header, "bearer "))
        THEN through
        ELSE LET original_token == SubSeq(auth_header, 8, Len(auth_header))
                 m == map_apikey_to_token(original_token, af, tf)
             IN  IF ~StartsWith(original_token, "sk-")
                 THEN through
                 ELSE [forwarded |-> IF m.value # original_token
                                     THEN NewHeaders(headers, m.value) ELSE headers,
                       called |-> TRUE, read |-> m.read]

\* what dispatch hands to call_next for a request with these headers
Forward(headers, af, tf) ==
    LET auth_header == HeadersGet(headers, "authorization", "")
        through == [forwarded |-> headers, called |-> TRUE, read |-> FALSE]
    IN  IF ~StartsWith(auth_header, "Bearer ")
        THEN through
        ELSE LET original_token == SubSeq(auth_header, 8, Len(auth_header))
             IN  IF ~StartsWith(original_token, "sk-")
                 THEN through
                 ELSE LET m == map_apikey_to_token(original_token, af, tf)
                      IN  IF m.escaped
                          THEN [forwarded |-> <<>>, called |-> FALSE, read |-> m.read]
                          ELSE IF m.value # original_token
                          THEN [forwarded |-> NewHeaders(headers, m.value),
                                called |-> TRUE, read |-> m.read]
                          ELSE [forwarded |-> headers, called |-> TRUE,
                                read |-> m.read]

\* APIKeyMapperMiddleware.dispatch for one inbound request, up to the await
dispatch(headers) ==
    /\ mw = MwIdle
    /\ mw' = [op |-> "dispatch", request |-> headers]
               @@ Forward(headers, apikeys_file, tokens_file)
    /\ UNCHANGED <<storeVars, sessionVars, ret, rd, loopVars>>

\* "response = await call_next(request); return response": the request is
\* gone, the middleware keeps nothing of it
call_next ==
    /\ mw # MwIdle
    /\ mw' = MwIdle
    /\ UNCHANGED <<storeVars, sessionVars, ret, rd, loopVars>>

\* The inbound requests: up to MaxHeaders headers (ASGI hands the names over
\* in lower case).
MwKeys == {"sk-K1", "sk-K2"}
AuthValues ==
    {"Bearer " \o k : k \in MwKeys \cup {"sk-unknown", "eyJ-A"}}
        \cup {"bearer sk-K1", "Basic sk-K1"}
HeaderSet ==
    {[name |-> "authorization", value |-> a] : a \in AuthValues}
        \cup {[name |-> "x-request-id", value |-> "42"]}
Requests == UNION {[1..n -> HeaderSet] : n \in 0..MaxHeaders}

\* What the two mapping files can hold when a request arrives: nothing, text
\* that does not parse, JSON of another shape, or a collection the
\* Credential Store saved.
DistinctNames(d) ==
    \A i, j \in 1..Len(d) : i # j => d[i].name # d[j].name
TokenDicts ==
    {d \in UNION {[1..n -> [name : TokenNames, value : TokenValues]] : n \in 0..2} :
        DistinctNames(d)}
TokenFiles ==
    {NoFile, [kind |-> "garbage", items |-> <<>>], [kind |-> "scalar", items |-> <<>>],
     [kind |-> "list", items |-> <<"t1">>], [kind |-> "list", items |-> <<"auto">>]}
        \cup {JsonDump(d) : d \in TokenDicts}
ApikeyEntries(name) ==
    [name : {name}, isdict : {TRUE}, key : MwKeys,
     token_name : {None, "auto", "t1", "t2"}]
        \cup {[name |-> name, isdict |-> FALSE, key |-> Absent, token_name |-> Absent]}
ApikeyDicts ==
    {<<>>} \cup {<<e>> : e \in ApikeyEntries("my-app")}
        \cup {p \in ApikeyEntries("my-app") \X ApikeyEntries("ci") :
                (p[1].isdict /\ p[2].isdict) => p[1].key # p[2].key}
ApikeyFiles ==
    {NoFile, [kind |-> "garbage", items |-> <<>>], [kind |-> "scalar", items |-> <<>>],
     [kind |-> "list", items |-> <<>>]}
        \cup {JsonDump(d) : d \in ApikeyDicts}

(***************************************************************************)
(* Streaming response reader (send_message, stream = True)                 *)
(***************************************************************************)
\* The lines a gateway can send. LineDone ends the stream; LineBad carries a
\* payload json.loads rejects; LineComment and LineEmpty carry no "data: ".
LineHi == "data: {\"choices\":[{\"delta\":{\"content\":\"Hi\"}}]}"
LineThere == "data: {\"choices\":[{\"delta\":{\"content\":\" there\"}}]}"
LineDone == "data: [DONE]"
LineBad == "data: {\"choices\":[{\"delta\":"
LineComment == ": keep-alive"
LineEmpty == ""
LineModel == "data: {\"model\":\"gpt-4-0613\",\"choices\":[{\"delta\":{\"content\":\"!\"}}]}"
LineModelOnly == "data: {\"model\":\"gpt-4o\",\"choices\":[]}"
LineTwoChoices == "data: {\"choices\":[{\"delta\":{}},{\"delta\":{\"content\":\"2nd\"}}]}"
LineNumber == "data: 5"
LineNullDelta == "data: {\"choices\":[{\"delta\":null}]}"
LineDictChoices == "data: {\"choices\":{\"message\":\"x\"}}"
LineRole == "data: {\"model\":\"gpt-4-0613\",\"choices\":[{\"delta\":{\"role\":\"assistant\"}}]}"
Lines == {LineHi, LineThere, LineDone, LineBad, LineComment, LineEmpty, LineModel,
          LineModelOnly, LineTwoChoices, LineNumber, LineNullDelta, LineDictChoices}

\* a choice object {"delta": {"content": c}}, {"delta": {}} or {"delta": null}
Choice(delta_type, has_content, content) ==
    [delta_type |-> delta_type, has_content |-> has_content, content |-> content]
\* what json.loads returns, or that it raises JSONDecodeError
JsonValue(type, choices_type, choices, model) ==
    [ok |-> TRUE, type |-> type, choices_type |-> choices_type,
     choices |-> choices, model |-> model]
JSONDecodeError ==
    [ok |-> FALSE, type |-> "", choices_type |-> Absent, choices |-> <<>>,
     model |-> Absent]

\* json.loads on the payloads of Lines
JsonLoads(chunk_data) ==
    CASE chunk_data = "{\"choices\":[{\"delta\":{\"content\":\"Hi\"}}]}" ->
            JsonValue("object", "list", <<Choice("dict", TRUE, "Hi")>>, Absent)
      [] chunk_data = "{\"choices\":[{\"delta\":{\"content\":\" there\"}}]}" ->
            JsonValue("object", "list", <<Choice("dict", TRUE, " there")>>, Absent)
      [] chunk_data = "{\"model\":\"gpt-4-0613\",\"choices\":[{\"delta\":{\"content\":\"!\"}}]}" ->
            JsonValue("object", "list", <<Choice("dict", TRUE, "!")>>, "gpt-4-0613")
      [] chunk_data = "{\"model\":\"gpt-4o\",\"choices\":[]}" ->
            JsonValue("object", "list", <<>>, "gpt-4o")
      [] chunk_data = "{\"choices\":[{\"delta\":{}},{\"delta\":{\"content\":\"2nd\"}}]}" ->
            JsonValue("object", "list",
                      <<Choice("dict", FALSE, ""), Choice("dict", TRUE, "2nd")>>, Absent)
      [] chunk_data = "{\"model\":\"gpt-4-0613\",\"choices\":[{\"delta\":{\"role\":\"assistant\"}}]}" ->
            JsonValue("object", "list", <<Choice("dict", FALSE, "")>>, "gpt-4-0613")
      [] chunk_data = "5" ->
            JsonValue("number", Absent, <<>>, Absent)
      [] chunk_data = "{\"choices\":[{\"delta\":null}]}" ->
            JsonValue("object", "list", <<Choice("null", FALSE, "")>>, Absent)
      [] chunk_data = "{\"choices\":{\"message\":\"x\"}}" ->
            JsonValue("object", "dict", <<Choice("dict", FALSE, "")>>, Absent)
      [] OTHER -> JSONDecodeError

\* extract_actual_model(response_model, requested_model)
extract_actual_model(response_model, requested_model) ==
    IF response_model = "" \/ response_model = None
    THEN requested_model
    ELSE response_model

\* The try block of the loop body on a parsed chunk: the model and the text
\* after it, or that it raises (anything but JSONDecodeError leaves the loop)
ProcessChunk(json_chunk, r) ==
    LET same == [raised |-> FALSE, actual_model |-> r.actual_model, content |-> ""]
        boom == [raised |-> TRUE, actual_model |-> r.actual_model, content |-> ""]
    IN  IF json_chunk.type # "object"
        THEN boom                               \* "choices" in 5
        ELSE IF json_chunk.choices_type = Absent
        THEN same
        ELSE IF Len(json_chunk.choices) = 0
        THEN same
        ELSE LET actual_model ==
                     IF json_chunk.model # Absent
                     THEN extract_actual_model(json_chunk.model, r.model)
                     ELSE r.actual_model
                 first == json_chunk.choices[1]
             IN  IF json_chunk.choices_type # "list"
                 THEN boom                      \* json_chunk["choices"][0] on a dict
                 ELSE IF first.delta_type # "dict"
                 THEN boom                      \* None.get("content", "")
                 ELSE [raised |-> FALSE, actual_model |-> actual_model,
                       content |-> IF first.has_content THEN first.content ELSE ""]

\* the outer "except Exception": return None, model
Failed(r) == [r EXCEPT !.status = "returned", !.result = None, !.result_model = r.model]

\* ReadLine without "except json.JSONDecodeError: continue": the error
\* reaches the outer handler
ReadLineNoSkip(r, chunk) ==
    IF ~StartsWith(chunk, "data: ")
    THEN [r EXCEPT !.pos = @ + 1]
    ELSE LET chunk_data == SubSeq(chunk, 7, Len(chunk))
         IN  IF chunk_data = "[DONE]"
             THEN [r EXCEPT !.status = "returned", !.result = r.full_response,
                            !.result_model = r.actual_model]
             ELSE LET json_chunk == JsonLoads(chunk_data)
                  IN  IF ~json_chunk.ok
                      THEN Failed(r)
                      ELSE LET c == ProcessChunk(json_chunk, r)
                           IN  IF c.raised
                               THEN Failed(r)
                               ELSE [r EXCEPT
                                       !.pos = @ + 1,
                                       !.actual_model = c.actual_model,
                                       !.emitted = IF c.content # ""
                                                   THEN Append(@, c.content) ELSE @,
                                       !.full_response = @ \o c.content]

\* One turn of "async for chunk in response.aiter_lines()" on the line chunk
ReadLine(r, chunk) ==
    IF ~StartsWith(chunk, "data: ")
    THEN [r EXCEPT !.pos = @ + 1]
    ELSE LET chunk_data == SubSeq(chunk, 7, Len(chunk))
         IN  IF chunk_data = "[DONE]"
             THEN [r EXCEPT !.status = "returned", !.result = r.full_response,
                            !.result_model = r.actual_model]
             ELSE LET json_chunk == JsonLoads(chunk_data)
                  IN  IF ~json_chunk.ok
                      THEN [r EXCEPT !.pos = @ + 1]        \* continue
                      ELSE LET c == ProcessChunk(json_chunk, r)
                           IN  IF c.raised
                               THEN Failed(r)
                               ELSE [r EXCEPT
                                       !.pos = @ + 1,
                                       !.actual_model = c.actual_model,
                                       !.emitted = IF c.content # ""
                                                   THEN Append(@, c.content) ELSE @,
                                       !.full_response = @ \o c.content]

\* the loop from the reader state r to the return
RECURSIVE ReadAll(_)
ReadAll(r) ==
    IF r.status = "returned" THEN r
    ELSE IF r.pos > Len(r.lines)
    THEN [r EXCEPT !.status = "returned", !.result = r.full_response,
                   !.result_model = r.actual_model]
    ELSE ReadAll(ReadLine(r, r.lines[r.pos]))

HttpCodes == {200, 500}

\* the reader before the first line of a 200 response
Fresh(model, lines) ==
    [status |-> "reading", model |-> model, code |-> 200, lines |-> lines,
     pos |-> 1, full_response |-> "", actual_model |-> model, emitted |-> <<>>,
     result |-> None, result_model |-> model]

\* the POST of send_message: the whole history goes out as "messages"
ChatRequest(cfg, auth, model, history, stream) ==
    [method |-> "POST",
     url |-> ConfigGet(cfg, "api_endpoint", "http://localhost:5005")
                \o "/v1/chat/completions",
     authorization |-> "Bearer " \o auth,
     model |-> model, messages |-> history, stream |-> stream]
LineSeqs == UNION {[1..n -> Lines] : n \in 0..MaxLines}

\* send_message(message, model, conversation_history, stream) with stream
\* set, up to the first line: the token check, the POST and the status check.
\* connected, code and lines are what the gateway answers.
send_message(model, connected, code, lines) ==
    /\ rd = RdIdle
    /\ current_stream
    /\ LET auth == GetActiveToken(config, tokens)
           r == [status |-> "reading", model |-> model, code |-> code,
                 lines |-> lines, pos |-> 1, full_response |-> "",
                 actual_model |-> model, emitted |-> <<>>,
                 result |-> None, result_model |-> model]
       IN  rd' = IF auth = None \/ auth = ""
                 THEN [Failed(r) EXCEPT !.code = 0, !.lines = <<>>]
                 ELSE IF ~connected
                 THEN [Failed(r) EXCEPT !.code = 0, !.lines = <<>>]
                 ELSE IF code # 200
                 THEN [Failed(r) EXCEPT !.lines = <<>>]
                 ELSE r
    /\ network' = IF GetActiveToken(config, tokens) \in {None, ""}
                  THEN <<>>
                  ELSE <<ChatRequest(config, GetActiveToken(config, tokens), model,
                                     conversation_history, TRUE)>>
    /\ UNCHANGED <<storeVars, sessionVars, ret, mw, running>>

\* the next line of the body
read_line ==
    /\ rd.status = "reading"
    /\ rd.pos <= Len(rd.lines)
    /\ rd' = ReadLine(rd, rd.lines[rd.pos])
    /\ UNCHANGED <<storeVars, sessionVars, ret, mw, loopVars>>

\* the body ends without [DONE]: return full_response, actual_model
end_of_stream ==
    /\ rd.status = "reading"
    /\ rd.pos > Len(rd.lines)
    /\ rd' = [rd EXCEPT !.status = "returned", !.result = rd.full_response,
                        !.result_model = rd.actual_model]
    /\ UNCHANGED <<storeVars, sessionVars, ret, mw, loopVars>>

Init ==
    /\ config = DefaultConfig
    /\ tokens = <<>>
    /\ apikeys = <<>>
    /\ config_file = NoFile
    /\ tokens_file = NoFile
    /\ apikeys_file = NoFile
    /\ token_txt = <<>>
    /\ current_model = ConfigGet(config, "default_model", "gpt-3.5-turbo")
    /\ current_stream = TRUE
    /\ conversation_history = <<>>
    /\ ret = Idle
    /\ mw = MwIdle
    /\ rd = RdIdle
    /\ network = <<>>
    /\ running = TRUE

Next ==
    \/ \E n \in TokenNames, v \in TokenValues, fs_ok \in BOOLEAN :
          add_token(n, v, fs_ok)
    \/ \E n \in TokenNames : remove_token(n)
    \/ \E n \in TokenNames : use_token(n)
    \/ get_active_token
    \/ \E n \in ApiKeyNames, r \in RandomParts : generate_apikey(n, r)
    \/ \E n \in ApiKeyNames : remove_apikey(n)
    \/ \E confirmed \in BOOLEAN, fs_ok \in BOOLEAN : reset(confirmed, fs_ok)

Spec == Init /\ [][Next]_vars

\* The Credential Store of a CLI whose config.json names a remote gateway
\* (an earlier /endpoint switch saved it).
RemoteConfig == [DefaultConfig EXCEPT !.api_endpoint = "http://gw:5005"]
InitRemote ==
    /\ config = RemoteConfig
    /\ tokens = <<>>
    /\ apikeys = <<>>
    /\ config_file = JsonDump(<<RemoteConfig>>)
    /\ tokens_file = NoFile
    /\ apikeys_file = NoFile
    /\ token_txt = <<>>
    /\ current_model = ConfigGet(config, "default_model", "gpt-3.5-turbo")
    /\ current_stream = TRUE
    /\ conversation_history = <<>>
    /\ ret = Idle
    /\ mw = MwIdle
    /\ rd = RdIdle
    /\ network = <<>>
    /\ running = TRUE

SpecRemote == InitRemote /\ [][Next]_vars

\* The middleware alone, against every pair of mapping files.
InitMw ==
    /\ config = DefaultConfig
    /\ tokens = <<>>
    /\ apikeys = <<>>
    /\ config_file = NoFile
    /\ tokens_file \in TokenFiles
    /\ apikeys_file \in ApikeyFiles
    /\ token_txt = <<>>
    /\ current_model = ConfigGet(config, "default_model", "gpt-3.5-turbo")
    /\ current_stream = TRUE
    /\ conversation_history = <<>>
    /\ ret = Idle
    /\ mw = MwIdle
    /\ rd = RdIdle
    /\ network = <<>>
    /\ running = TRUE

NextMw ==
    \/ mw = MwIdle /\ \E headers \in Requests : dispatch(headers)
    \/ call_next

SpecMw == InitMw /\ [][NextMw]_vars

\* The streaming reader, in a session that holds one token (or none).
InitStream ==
    /\ config = DefaultConfig
    /\ tokens \in {<<>>, <<[name |-> "t1", value |-> "eyJ-A"]>>}
    /\ apikeys = <<>>
    /\ config_file = NoFile
    /\ tokens_file = IF tokens = <<>> THEN NoFile ELSE JsonDump(tokens)
    /\ apikeys_file = NoFile
    /\ token_txt = IF tokens = <<>> THEN <<>> ELSE <<"eyJ-A">>
    /\ current_model = ConfigGet(config, "default_model", "gpt-3.5-turbo")
    /\ current_stream = TRUE
    /\ conversation_history = <<>>
    /\ ret = Idle
    /\ mw = MwIdle
    /\ rd = RdIdle
    /\ network = <<>>
    /\ running = TRUE

NextStream ==
    \/ /\ rd = RdIdle
       /\ \E connected \in BOOLEAN, code \in HttpCodes, lines \in LineSeqs :
             send_message(current_model, connected, code, lines)
    \/ read_line
    \/ end_of_stream

SpecStream == InitStream /\ [][NextStream]_vars

(***************************************************************************)
(* Chat session loop (main) and the endpoint switch                        *)
(***************************************************************************)
\* str.strip(), str.lower(), str.rstrip('/') and str.split(maxsplit=1) on the
\* input lines of the model
IsSpace(c) == c = " " \/ c = "\t"
RECURSIVE Lstrip(_)
Lstrip(s) ==
    IF Len(s) > 0 /\ IsSpace(SubSeq(s, 1, 1)) THEN Lstrip(SubSeq(s, 2, Len(s))) ELSE s
RECURSIVE Rstrip(_)
Rstrip(s) ==
    IF Len(s) > 0 /\ IsSpace(SubSeq(s, Len(s), Len(s)))
    THEN Rstrip(SubSeq(s, 1, Len(s) - 1)) ELSE s
Strip(s) == Rstrip(Lstrip(s))
LowerChar(c) ==
    CASE c = "A" -> "a" [] c = "B" -> "b" [] c = "C" -> "c" [] c = "D" -> "d"
      [] c = "E" -> "e" [] c = "F" -> "f" [] c = "G" -> "g" [] c = "H" -> "h"
      [] c = "I" -> "i" [] c = "J" -> "j" [] c = "K" -> "k" [] c = "L" -> "l"
      [] c = "M" -> "m" [] c = "N" -> "n" [] c = "O" -> "o" [] c = "P" -> "p"
      [] c = "Q" -> "q" [] c = "R" -> "r" [] c = "S" -> "s" [] c = "T" -> "t"
      [] c = "U" -> "u" [] c = "V" -> "v" [] c = "W" -> "w" [] c = "X" -> "x"
      [] c = "Y" -> "y" [] c = "Z" -> "z" [] OTHER -> c
RECURSIVE StrLower(_)
StrLower(s) ==
    IF s = "" THEN "" ELSE LowerChar(SubSeq(s, 1, 1)) \o StrLower(SubSeq(s, 2, Len(s)))
\* the position of the first whitespace of s from i on, Len(s) + 1 without one
RECURSIVE FirstSpace(_, _)
FirstSpace(s, i) ==
    IF i > Len(s) \/ IsSpace(SubSeq(s, i, i)) THEN i ELSE FirstSpace(s, i + 1)
\* s.split(maxsplit=1): the first whitespace-delimited word, and the rest of
\* the line after the whitespace that follows it when anything is left
Split1(s) ==
    LET t == Lstrip(s)
        i == FirstSpace(t, 1)
        rest == Lstrip(SubSeq(t, i, Len(t)))
    IN  IF t = "" THEN <<>>
        ELSE IF rest = "" THEN <<SubSeq(t, 1, i - 1)>>
        ELSE <<SubSeq(t, 1, i - 1), rest>>
RECURSIVE RstripSlash(_)
RstripSlash(s) ==
    IF Len(s) > 0 /\ SubSeq(s, Len(s), Len(s)) = "/"
    THEN RstripSlash(SubSeq(s, 1, Len(s) - 1)) ELSE s
normalize_endpoint(endpoint) ==
    IF endpoint # "" /\ endpoint # None THEN RstripSlash(endpoint) ELSE endpoint

\* the commands main() has a branch for
Commands ==
    {"/help", "/status", "/models", "/use", "/stream", "/clear", "/web",
     "/endpoint", "/reset", "/token", "/apikey"}
\* parts[0].lower() and "parts[1] if len(parts) > 1 else None"
CommandOf(user_input) == StrLower(Split1(user_input)[1])
ArgOf(user_input) ==
    IF Len(Split1(user_input)) > 1 THEN Split1(user_input)[2] ELSE None

\* Route with the line stripped before it is looked at
RouteStripped(user_input) ==
    LET line == Strip(user_input)
    IN  IF line = "" THEN "blank"
        ELSE IF StrLower(line) \in {"exit", "/exit", "bye"} THEN "exit"
        ELSE IF StartsWith(line, "/")
        THEN IF CommandOf(line) \in Commands THEN CommandOf(line) ELSE "unknown"
        ELSE "chat"

\* Route with the final else branch of the command chain missing: a line no
\* branch takes falls through to the chat turn
RouteFallThrough(user_input) ==
    IF Strip(user_input) = "" THEN "blank"
    ELSE IF StrLower(user_input) \in {"exit", "/exit", "bye"} THEN "exit"
    ELSE IF StartsWith(user_input, "/") /\ CommandOf(user_input) \in Commands
    THEN CommandOf(user_input)
    ELSE "chat"

\* The if/elif chain of one loop iteration: which branch takes the line.
Route(user_input) ==
    IF Strip(user_input) = "" THEN "blank"
    ELSE IF StrLower(user_input) \in {"exit", "/exit", "bye"} THEN "exit"
    ELSE IF StartsWith(user_input, "/")
    THEN IF CommandOf(user_input) \in Commands THEN CommandOf(user_input)
         ELSE "unknown"
    ELSE "chat"

\* The lines typed into the session.
Inputs ==
    {"hello", " /help", "Bye", "  ", "/Foo bar", "/help", "/Stream", "/clear",
     "/use gpt-4", "/use", "/endpoint http://gw:5005/", "/endpoint gw:5005",
     "/endpoint", "/reset"}
\* the branch each of them takes
RouteOf == [u \in Inputs |-> Route(u)]

\* What the gateway answers to the POST of a chat turn: no connection, no
\* answer in time, a status, and for a 200 the lines of the stream or the JSON
\* document of the whole answer.
NoDoc == [parses |-> FALSE, shaped |-> FALSE, content |-> None, model |-> Absent]
Doc(content, model) ==
    [parses |-> TRUE, shaped |-> TRUE, content |-> content, model |-> model]
Docs ==
    {Doc("Hi", Absent), Doc("!", "gpt-4-0613"), Doc("", "gpt-4-0613"),
     Doc(None, "gpt-4o"),
     [parses |-> TRUE, shaped |-> FALSE, content |-> None, model |-> "gpt-4o"],
     NoDoc}
StreamBodies ==
    {<<LineDone>>, <<LineHi, LineDone>>, <<LineModel, LineDone>>,
     <<LineRole, LineDone>>, <<LineHi, LineNumber>>}
Answer(connect, code, lines, doc) ==
    [connect |-> connect, code |-> code, lines |-> lines, doc |-> doc]
Answers(stream) ==
    {Answer("ConnectError", 0, <<>>, NoDoc), Answer("Timeout", 0, <<>>, NoDoc),
     Answer("ok", 500, <<>>, NoDoc)}
        \cup (IF stream
              THEN {Answer("ok", 200, b, NoDoc) : b \in StreamBodies}
              ELSE {Answer("ok", 200, <<>>, d) : d \in Docs})

\* the non-streaming branch on a 200: result["choices"][0]["message"]["content"]
\* and the model, or that reading the document raises
BatchResult(doc, model) ==
    IF ~doc.parses \/ ~doc.shaped
    THEN [raised |-> TRUE, content |-> None, actual_model |-> model]
    ELSE [raised |-> FALSE, content |-> doc.content,
          actual_model |-> extract_actual_model(
                               IF doc.model = Absent THEN "" ELSE doc.model, model)]

\* send_message(message, model, conversation_history, stream) from call to
\* return: (response, actual_model) and the requests it issued
SendMessage(cfg, toks, model, history, stream, answer) ==
    LET auth == GetActiveToken(cfg, toks)
        request == ChatRequest(cfg, auth, model, history, stream)
        failed == [response |-> None, actual_model |-> model,
                   requests |-> <<request>>]
    IN  IF auth = None \/ auth = ""
        THEN [failed EXCEPT !.requests = <<>>]
        ELSE IF answer.connect # "ok" \/ answer.code # 200
        THEN failed
        ELSE IF stream
        THEN LET r == ReadAll(Fresh(model, answer.lines))
             IN  [response |-> r.result, actual_model |-> r.result_model,
                  requests |-> <<request>>]
        ELSE LET b == BatchResult(answer.doc, model)
             IN  IF b.raised THEN failed
                 ELSE [response |-> b.content, actual_model |-> b.actual_model,
                       requests |-> <<request>>]

\* main(): a line no command branch takes. The user entry goes into the
\* history before the request; the assistant entry and the model follow "if
\* response".
chat_turn(user_input, answer) ==
    /\ running
    /\ RouteOf[user_input] = "chat"
    /\ Len(conversation_history) + 2 <= MaxHistory
    /\ LET history == Append(conversation_history,
                             [role |-> "user", content |-> user_input])
           sent == SendMessage(config, tokens, current_model, history,
                               current_stream, answer)
           truthy == sent.response # None /\ sent.response # ""
       IN  /\ conversation_history' =
                 IF truthy
                 THEN Append(history, [role |-> "assistant", content |-> sent.response])
                 ELSE history
           /\ current_model' =
                 IF truthy /\ sent.actual_model # current_model
                 THEN sent.actual_model ELSE current_model
           /\ network' = sent.requests
           /\ ret' = [op |-> "chat", input |-> user_input,
                      connect |-> answer.connect, code |-> answer.code,
                      response |-> sent.response,
                      actual_model |-> sent.actual_model]
    /\ UNCHANGED <<storeVars, current_stream, mw, rd, running>>

\* main(): "if not user_input.strip(): continue"
blank_line(user_input) ==
    /\ running
    /\ RouteOf[user_input] = "blank"
    /\ ret' = [op |-> "blank", input |-> user_input]
    /\ network' = <<>>
    /\ UNCHANGED <<storeVars, sessionVars, mw, rd, running>>

\* main(): exit, /exit or bye in any case: break
exit(user_input) ==
    /\ running
    /\ RouteOf[user_input] = "exit"
    /\ running' = FALSE
    /\ ret' = [op |-> "exit", input |-> user_input]
    /\ network' = <<>>
    /\ UNCHANGED <<storeVars, sessionVars, mw, rd>>

\* main(), command /help
show_help(user_input) ==
    /\ running
    /\ RouteOf[user_input] = "/help"
    /\ ret' = [op |-> "/help", input |-> user_input]
    /\ network' = <<>>
    /\ UNCHANGED <<storeVars, sessionVars, mw, rd, running>>

\* main(), command /stream
toggle_stream(user_input) ==
    /\ running
    /\ RouteOf[user_input] = "/stream"
    /\ current_stream' = ~current_stream
    /\ ret' = [op |-> "/stream", input |-> user_input]
    /\ network' = <<>>
    /\ UNCHANGED <<storeVars, current_model, conversation_history, mw, rd, running>>

\* the GET of show_status, whatever comes back
StatusProbe(cfg) ==
    [method |-> "GET",
     url |-> ConfigGet(cfg, "api_endpoint", "http://localhost:5005") \o "/v1/models"]

\* /clear that drops the last entry only
clear_last(user_input) ==
    /\ running
    /\ RouteOf[user_input] = "/clear"
    /\ conversation_history' =
          SubSeq(conversation_history, 1, Len(conversation_history) - 1)
    /\ ret' = [op |-> "/clear", input |-> user_input]
    /\ network' = <<StatusProbe(config)>>
    /\ UNCHANGED <<storeVars, current_model, current_stream, mw, rd, running>>

\* main(), command /clear
clear(user_input) ==
    /\ running
    /\ RouteOf[user_input] = "/clear"
    /\ conversation_history' = <<>>
    /\ ret' = [op |-> "/clear", input |-> user_input]
    /\ network' = <<StatusProbe(config)>>
    /\ UNCHANGED <<storeVars, current_model, current_stream, mw, rd, running>>

\* main(), command /use <model>: the model is switched, then verify_model
\* sends a one-turn request whose answer only picks the message shown
use_model(user_input) ==
    /\ running
    /\ RouteOf[user_input] = "/use"
    /\ LET arg == ArgOf(user_input)
           auth == GetActiveToken(config, tokens)
       IN  IF arg # None
           THEN /\ current_model' = arg
                /\ network' =
                      IF auth = None \/ auth = "" THEN <<>>
                      ELSE <<ChatRequest(config, auth, arg,
                                         <<[role |-> "user", content |-> "Hi"]>>,
                                         FALSE)>>
           ELSE /\ current_model' = current_model
                /\ network' = <<>>
    /\ ret' = [op |-> "/use", input |-> user_input]
    /\ UNCHANGED <<storeVars, current_stream, conversation_history, mw, rd, running>>

\* What the candidate endpoint answers to the probes of switch_endpoint.
Health == {"200", "403", "500", "Timeout", "ConnectionError", "Exception"}
Fallbacks ==
    {[raised |-> FALSE, code |-> 403, rbac |-> TRUE],
     [raised |-> FALSE, code |-> 403, rbac |-> FALSE],
     [raised |-> FALSE, code |-> 200, rbac |-> TRUE],
     [raised |-> TRUE, code |-> 0, rbac |-> FALSE]}
\* the second probe is not sent
NoFallback == [raised |-> FALSE, code |-> 0, rbac |-> FALSE]
HealthProbe(new_endpoint) == [method |-> "GET", url |-> new_endpoint \o "/health"]
ModelsProbe(new_endpoint) == [method |-> "GET", url |-> new_endpoint \o "/v1/models"]

\* switch_endpoint without the test of the scheme
switch_endpoint_unvalidated(new_endpoint, health, fallback) ==
    IF health = "200"
    THEN [result |-> TRUE, requests |-> <<HealthProbe(new_endpoint)>>]
    ELSE IF health = "403"
    THEN [result |-> ~fallback.raised /\ fallback.code = 403 /\ fallback.rbac,
          requests |-> <<HealthProbe(new_endpoint), ModelsProbe(new_endpoint)>>]
    ELSE [result |-> FALSE, requests |-> <<HealthProbe(new_endpoint)>>]

\* switch_endpoint that takes any 403 of the second probe as the signature
switch_endpoint_any403(new_endpoint, health, fallback) ==
    IF ~(StartsWith(new_endpoint, "http://") \/ StartsWith(new_endpoint, "https://"))
    THEN [result |-> FALSE, requests |-> <<>>]
    ELSE IF health = "200"
    THEN [result |-> TRUE, requests |-> <<HealthProbe(new_endpoint)>>]
    ELSE IF health = "403"
    THEN [result |-> ~fallback.raised /\ fallback.code = 403,
          requests |-> <<HealthProbe(new_endpoint), ModelsProbe(new_endpoint)>>]
    ELSE [result |-> FALSE, requests |-> <<HealthProbe(new_endpoint)>>]

\* switch_endpoint(new_endpoint): what it returns (True exactly when it called
\* config.set) and the probes it sent
switch_endpoint(new_endpoint, health, fallback) ==
    IF ~(StartsWith(new_endpoint, "http://") \/ StartsWith(new_endpoint, "https://"))
    THEN [result |-> FALSE, requests |-> <<>>]
    ELSE IF health = "200"
    THEN [result |-> TRUE, requests |-> <<HealthProbe(new_endpoint)>>]
    ELSE IF health = "403"
    THEN [result |-> ~fallback.raised /\ fallback.code = 403 /\ fallback.rbac,
          requests |-> <<HealthProbe(new_endpoint), ModelsProbe(new_endpoint)>>]
    ELSE [result |-> FALSE, requests |-> <<HealthProbe(new_endpoint)>>]

\* Config.set(key, value) for the key api_endpoint
ConfigSet(cfg, value) ==
    [cfg EXCEPT !.api_endpoint = IF value # "" THEN normalize_endpoint(value) ELSE value]

\* main(), command /endpoint <url>
endpoint_command(user_input, health, fallback) ==
    /\ running
    /\ RouteOf[user_input] = "/endpoint"
    /\ LET arg == ArgOf(user_input)
           s == switch_endpoint(arg, health, fallback)
       IN  IF arg # None
           THEN /\ ret' = [op |-> "/endpoint", input |-> user_input,
                           health |-> health, fallback |-> fallback,
                           result |-> s.result]
                /\ network' = s.requests
                /\ IF s.result
                   THEN /\ config' = ConfigSet(config, arg)
                        /\ save_config
                   ELSE UNCHANGED <<config, config_file>>
           ELSE /\ ret' = [op |-> "/endpoint", input |-> user_input,
                           health |-> health, fallback |-> fallback,
                           result |-> FALSE]
                /\ network' = <<>>
                /\ UNCHANGED <<config, config_file>>
    /\ UNCHANGED <<tokens, apikeys, tokens_file, apikeys_file, token_txt,
                   sessionVars, mw, rd, running>>

\* main(): a line starting with "/" that no branch takes
unknown_command(user_input) ==
    /\ running
    /\ RouteOf[user_input] = "unknown"
    /\ ret' = [op |-> "unknown", input |-> user_input]
    /\ network' = <<>>
    /\ UNCHANGED <<storeVars, sessionVars, mw, rd, running>>

\* A session starts from what the files hold: config.json missing or naming
\* another default model and an active token, no token or two, one API key.
SessionConfigs ==
    {DefaultConfig,
     [DefaultConfig EXCEPT !.default_model = "gpt-4", !.active_token = "t2"]}
SessionTokens ==
    {<<>>,
     <<[name |-> "t1", value |-> "eyJ-A"], [name |-> "t2", value |-> "eyJ-B"]>>}
SessionApikeys ==
    {<<[name |-> "my-app", isdict |-> TRUE, key |-> "sk-K1", token_name |-> None]>>}

InitSession ==
    /\ config \in SessionConfigs
    /\ tokens \in SessionTokens
    /\ apikeys \in SessionApikeys
    /\ config_file = IF config = DefaultConfig THEN NoFile ELSE JsonDump(<<config>>)
    /\ tokens_file = IF tokens = <<>> THEN NoFile ELSE JsonDump(tokens)
    /\ apikeys_file = IF apikeys = <<>> THEN NoFile ELSE JsonDump(apikeys)
    /\ token_txt = [i \in 1..Len(tokens) |-> tokens[i].value]
    /\ current_model = ConfigGet(config, "default_model", "gpt-3.5-turbo")
    /\ current_stream = TRUE
    /\ conversation_history = <<>>
    /\ ret = Idle
    /\ mw = MwIdle
    /\ rd = RdIdle
    /\ network = <<>>
    /\ running = TRUE

NextSession ==
    \/ \E u \in Inputs : blank_line(u)
    \/ \E u \in Inputs : exit(u)
    \/ \E u \in Inputs : show_help(u)
    \/ \E u \in Inputs : toggle_stream(u)
    \/ \E u \in Inputs : clear(u)
    \/ \E u \in Inputs : use_model(u)
    \/ \E u \in Inputs : unknown_command(u)
    \/ \E u \in Inputs :
          /\ RouteOf[u] = "/endpoint"
          /\ \E health \in Health :
                \E fallback \in IF health = "403" THEN Fallbacks ELSE {NoFallback} :
                    endpoint_command(u, health, fallback)
    \/ /\ running
       /\ \E u \in Inputs : RouteOf[u] = "/reset"
       /\ \E confirmed \in BOOLEAN, fs_ok \in BOOLEAN : reset(confirmed, fs_ok)
    \/ \E u \in Inputs :
          /\ RouteOf[u] = "chat"
          /\ \E answer \in Answers(current_stream) : chat_turn(u, answer)

SpecSession == InitSession /\ [][NextSession]_vars

(***************************************************************************)
(* Start-up: Config() and setup_auto_config()                              *)
(***************************************************************************)
\* a file that exists and cannot be opened or read (OSError)
Unreadable == [kind |-> "ioerror", items |-> <<>>]
Garbage == [kind |-> "garbage", items |-> <<>>]

\* Config.load_config: the dict of config.json with its endpoint normalized,
\* the default dict when the file is missing; an error of open() or
\* json.load() is not caught
load_config(file) ==
    IF file.kind = "missing"
    THEN [raised |-> FALSE, value |-> DefaultConfig]
    ELSE IF file.kind = "dict"
    THEN [raised |-> FALSE,
          value |-> [file.items[1] EXCEPT
                        !.api_endpoint = IF @ = Absent THEN @
                                         ELSE normalize_endpoint(@)]]
    ELSE [raised |-> TRUE, value |-> DefaultConfig]

\* Config.load_tokens and Config.load_apikeys: the dict of the file, {} when
\* it is missing, cannot be read, does not parse or holds no dict
load_tokens(file) == IF file.kind = "dict" THEN file.items ELSE <<>>
load_apikeys(file) == IF file.kind = "dict" THEN file.items ELSE <<>>

Starting == [op |-> "start"]

\* Config.__init__: the three loads, in this order
Config ==
    /\ ret = Starting
    /\ LET c == load_config(config_file)
       IN  IF c.raised
           THEN /\ ret' = [op |-> "Config", raised |-> TRUE]
                /\ UNCHANGED <<config, tokens, apikeys>>
           ELSE /\ config' = c.value
                /\ tokens' = load_tokens(tokens_file)
                /\ apikeys' = load_apikeys(apikeys_file)
                /\ ret' = [op |-> "Config", raised |-> FALSE]
    /\ current_model' = current_model
    /\ network' = <<>>
    /\ UNCHANGED <<config_file, tokens_file, apikeys_file, token_txt,
                   current_stream, conversation_history, mw, rd, running>>

\* add_token for each entry of d in order, as the loop of setup_auto_config
\* runs it on the state s = [tokens, token_txt]
RECURSIVE AddAll(_, _)
AddAll(s, d) ==
    IF d = <<>> THEN s
    ELSE AddAll([tokens |-> Put(s.tokens, d[1]),
                 token_txt |-> Append(s.token_txt, d[1].value)], Tail(d))

\* setup_auto_config(), run once after config = Config(): with no token in
\* the store, the tokens of ./tokens.json are added and the first made
\* active; failing that the last line of the token log becomes the token
\* "auto" and is made active. project_tokens is what ./tokens.json holds.
setup_auto_config(project_tokens) ==
    /\ ret.op = "Config" /\ ~ret.raised
    /\ IF tokens # <<>>
       THEN /\ ret' = [op |-> "setup_auto_config", result |-> FALSE]
            /\ network' = <<>>
            /\ UNCHANGED <<config, tokens, config_file, tokens_file, token_txt>>
       ELSE IF project_tokens.kind = "dict" /\ project_tokens.items # <<>>
       THEN LET s == AddAll([tokens |-> tokens, token_txt |-> token_txt],
                            project_tokens.items)
            IN  /\ tokens' = s.tokens
                /\ token_txt' = s.token_txt
                /\ save_tokens
                /\ config' = [config EXCEPT !.active_token = project_tokens.items[1].name]
                /\ save_config
                /\ network' = IF SyncRequests(config, "tokens") = <<>> THEN <<>>
                              ELSE [i \in 1..Len(project_tokens.items) |->
                                       SyncRequests(config, "tokens")[1]]
                /\ ret' = [op |-> "setup_auto_config", result |-> TRUE]
       ELSE IF token_txt # <<>> /\ token_txt[1] # ""
       THEN /\ tokens' = <<[name |-> "auto", value |-> token_txt[Len(token_txt)]]>>
            /\ token_txt' = Append(token_txt, token_txt[Len(token_txt)])
            /\ save_tokens
            /\ config' = [config EXCEPT !.active_token = "auto"]
            /\ save_config
            /\ network' = SyncRequests(config, "tokens")
            /\ ret' = [op |-> "setup_auto_config", result |-> TRUE]
       ELSE /\ ret' = [op |-> "setup_auto_config", result |-> FALSE]
            /\ network' = <<>>
            /\ UNCHANGED <<config, tokens, config_file, tokens_file, token_txt>>
    /\ UNCHANGED <<apikeys, apikeys_file, sessionVars, mw, rd, running>>

\* What the files can hold when the program starts.
LoadConfigFiles ==
    {NoFile, Garbage, Unreadable, JsonDump(<<DefaultConfig>>),
     JsonDump(<<[api_endpoint |-> "http://gw:5005/", default_model |-> "gpt-4",
                 active_token |-> "t1"]>>),
     JsonDump(<<[api_endpoint |-> Absent, default_model |-> Absent,
                 active_token |-> Absent]>>)}
LoadTokenFiles ==
    {NoFile, Garbage, Unreadable, [kind |-> "list", items |-> <<"t1">>],
     JsonDump(<<>>), JsonDump(<<[name |-> "t1", value |-> "eyJ-A"]>>),
     JsonDump(<<[name |-> "t2", value |-> "eyJ-B"], [name |-> "t1", value |-> "eyJ-A"]>>)}
LoadApikeyFiles ==
    {NoFile, Garbage, Unreadable, [kind |-> "list", items |-> <<>>],
     JsonDump(<<[name |-> "my-app", isdict |-> TRUE, key |-> "sk-K1",
                 token_name |-> "t1"]>>)}
ProjectTokenFiles ==
    {NoFile, Garbage,
     JsonDump(<<[name |-> "t2", value |-> "eyJ-B"], [name |-> "t1", value |-> "eyJ-A"]>>)}
TokenLogs == UNION {[1..n -> TokenValues] : n \in 0..MaxLog}

InitLoad ==
    /\ config_file \in LoadConfigFiles
    /\ tokens_file \in LoadTokenFiles
    /\ apikeys_file \in LoadApikeyFiles
    /\ token_txt \in TokenLogs
    /\ config = DefaultConfig
    /\ tokens = <<>>
    /\ apikeys = <<>>
    /\ current_model = "gpt-3.5-turbo"
    /\ current_stream = TRUE
    /\ conversation_history = <<>>
    /\ ret = Starting
    /\ mw = MwIdle
    /\ rd = RdIdle
    /\ network = <<>>
    /\ running = TRUE

NextLoad ==
    \/ Config
    \/ \E project_tokens \in ProjectTokenFiles : setup_auto_config(project_tokens)

SpecLoad == InitLoad /\ [][NextLoad]_vars

(***************************************************************************)
(* The CLI and the middleware over the same two files                      *)
(***************************************************************************)
\* generate_apikey_interactive(): refused without a usable token; name is the
\* answer to the prompt, replace the answer to "already exists. Replace it?"
generate_apikey_interactive(name, replace, random_part) ==
    LET api_key == "sk-" \o random_part
        token == GetActiveToken(config, tokens)
        generated == /\ token \notin {None, ""}
                     /\ name # ""
                     /\ Has(apikeys, name) => replace
    IN  /\ api_key \notin KeysInUse
        /\ IF generated
           THEN /\ apikeys' = Put(apikeys, NewApikey(name, api_key, config))
                /\ save_apikeys
                /\ network' = SyncRequests(config, "apikeys")
           ELSE /\ UNCHANGED <<apikeys, apikeys_file>>
                /\ network' = <<>>
        /\ ret' = [op |-> "generate_apikey_interactive", name |-> name,
                   generated |-> generated,
                   key |-> IF generated THEN api_key ELSE None,
                   token |-> token]
        /\ UNCHANGED <<config, tokens, config_file, tokens_file, token_txt,
                       sessionVars, mw, rd, running>>

\* a client request that carries nothing but its key
KeyRequests ==
    {<<[name |-> "authorization", value |-> "Bearer " \o k]>> : k \in MwKeys}

\* The store's operations and the middleware's lookups, one after the other:
\* a lookup reads the two files as the last store operation left them.
\* add_token("auto", v) followed by use_token("auto") is what
\* setup_auto_config does with the last line of token.txt.
NextE2E ==
    \/ /\ mw = MwIdle
       /\ \E n \in TokenNames, v \in TokenValues : add_token(n, v, TRUE)
    \/ /\ mw = MwIdle
       /\ \E n \in TokenNames : remove_token(n)
    \/ /\ mw = MwIdle
       /\ \E n \in TokenNames : use_token(n)
    \/ /\ mw = MwIdle
       /\ \E n \in ApiKeyNames, replace \in BOOLEAN, r \in RandomParts :
             generate_apikey_interactive(n, replace, r)
    \/ \E headers \in KeyRequests : dispatch(headers)
    \/ call_next

SpecE2E == Init /\ [][NextE2E]_vars

(***************************************************************************)
(* A middleware lookup while the CLI writes the two files                  *)
(***************************************************************************)
\* No lock and no rename: load_mappings opens apikeys.json, then
\* tokens.json; save_tokens and save_apikeys open the file with mode "w"
\* (which empties it) and then dump into it. Each open and each dump is a
\* step of its own here. While a lookup is under way mw.seen collects every
\* pair of file contents that stood together on disk.
Writing == ret.op \in {"save_tokens", "save_apikeys"}
Observe(m) ==
    IF m.op = "reading"
    THEN [m EXCEPT !.seen = @ \cup {<<apikeys_file', tokens_file'>>}]
    ELSE m

\* load_mappings, first open: apikeys.json is read; an error ends the
\* lookup with ({}, {}), and the key maps to itself
read_apikeys(api_key) ==
    /\ mw = MwIdle
    /\ mw' = IF LoadJson(apikeys_file) = Raised
             THEN [op |-> "looked_up", key |-> api_key,
                   value |-> map_apikey_to_token(api_key, apikeys_file,
                                                 tokens_file).value,
                   seen |-> {<<apikeys_file, tokens_file>>}]
             ELSE [op |-> "reading", key |-> api_key, af |-> apikeys_file,
                   seen |-> {<<apikeys_file, tokens_file>>}]
    /\ UNCHANGED <<storeVars, sessionVars, ret, rd, loopVars>>

\* load_mappings, second open: tokens.json is read, and map_apikey_to_token
\* runs its loop over the two dicts in hand
read_tokens ==
    /\ mw.op = "reading"
    /\ mw' = [op |-> "looked_up", key |-> mw.key,
              value |-> map_apikey_to_token(mw.key, mw.af, tokens_file).value,
              seen |-> mw.seen]
    /\ UNCHANGED <<storeVars, sessionVars, ret, rd, loopVars>>

\* dispatch forwards the request; nothing of the lookup is kept
forward ==
    /\ mw.op = "looked_up"
    /\ mw' = MwIdle
    /\ UNCHANGED <<storeVars, sessionVars, ret, rd, loopVars>>

\* add_token up to the open(tokens_file, 'w') of save_tokens
add_token_open(name, token) ==
    /\ ~Writing
    /\ Len(token_txt) < MaxLog
    /\ tokens' = Put(tokens, [name |-> name, value |-> token])
    /\ tokens_file' = Garbage
    /\ ret' = [op |-> "save_tokens", log |-> <<token>>,
               sync |-> SyncRequests(config, "tokens")]
    /\ network' = <<>>
    /\ UNCHANGED <<config, apikeys, config_file, apikeys_file, token_txt,
                   sessionVars, rd, running>>
    /\ mw' = Observe(mw)

\* remove_token up to the open of save_tokens
remove_token_open(name) ==
    /\ ~Writing
    /\ Has(tokens, name)
    /\ tokens' = Del(tokens, name)
    /\ tokens_file' = Garbage
    /\ ret' = [op |-> "save_tokens", log |-> <<>>, sync |-> <<>>]
    /\ network' = <<>>
    /\ UNCHANGED <<config, apikeys, config_file, apikeys_file, token_txt,
                   sessionVars, rd, running>>
    /\ mw' = Observe(mw)

\* json.dump of save_tokens and what add_token does after it
save_tokens_dump ==
    /\ ret.op = "save_tokens"
    /\ tokens_file' = JsonDump(tokens)
    /\ token_txt' = token_txt \o ret.log
    /\ network' = ret.sync
    /\ ret' = Idle
    /\ UNCHANGED <<config, tokens, apikeys, config_file, apikeys_file,
                   sessionVars, rd, running>>
    /\ mw' = Observe(mw)

\* generate_apikey up to the open(apikeys_file, 'w') of save_apikeys
generate_apikey_open(name, random_part) ==
    /\ ~Writing
    /\ ("sk-" \o random_part) \notin KeysInUse
    /\ apikeys' = Put(apikeys, NewApikey(name, "sk-" \o random_part, config))
    /\ apikeys_file' = Garbage
    /\ ret' = [op |-> "save_apikeys", sync |-> SyncRequests(config, "apikeys")]
    /\ network' = <<>>
    /\ UNCHANGED <<config, tokens, config_file, tokens_file, token_txt,
                   sessionVars, rd, running>>
    /\ mw' = Observe(mw)

\* remove_apikey up to the open of save_apikeys
remove_apikey_open(name) ==
    /\ ~Writing
    /\ Has(apikeys, name)
    /\ apikeys' = Del(apikeys, name)
    /\ apikeys_file' = Garbage
    /\ ret' = [op |-> "save_apikeys", sync |-> <<>>]
    /\ network' = <<>>
    /\ UNCHANGED <<config, tokens, config_file, tokens_file, token_txt,
                   sessionVars, rd, running>>
    /\ mw' = Observe(mw)

\* json.dump of save_apikeys and the sync after it
save_apikeys_dump ==
    /\ ret.op = "save_apikeys"
    /\ apikeys_file' = JsonDump(apikeys)
    /\ network' = ret.sync
    /\ ret' = Idle
    /\ UNCHANGED <<config, tokens, apikeys, config_file, tokens_file, token_txt,
                   sessionVars, rd, running>>
    /\ mw' = Observe(mw)

\* the CLI has Token t1 in use
RaceConfig == [DefaultConfig EXCEPT !.active_token = "t1"]
InitRace ==
    /\ config = RaceConfig
    /\ tokens = <<[name |-> "t1", value |-> "eyJ-A"]>>
    /\ apikeys = <<>>
    /\ config_file = JsonDump(<<RaceConfig>>)
    /\ tokens_file = JsonDump(tokens)
    /\ apikeys_file = NoFile
    /\ token_txt = <<"eyJ-A">>
    /\ current_model = "gpt-3.5-turbo"
    /\ current_stream = TRUE
    /\ conversation_history = <<>>
    /\ ret = Idle
    /\ mw = MwIdle
    /\ rd = RdIdle
    /\ network = <<>>
    /\ running = TRUE

NextRace ==
    \/ \E k \in MwKeys : read_apikeys(k)
    \/ read_tokens
    \/ forward
    \/ \E v \in TokenValues : add_token_open("t1", v)
    \/ remove_token_open("t1")
    \/ save_tokens_dump
    \/ \E r \in RandomParts : generate_apikey_open("my-app", r)
    \/ remove_apikey_open("my-app")
    \/ save_apikeys_dump

SpecRace == InitRace /\ [][NextRace]_vars
(***************************************************************************)
(* Properties of the middleware (SpecMw)                                    *)
(***************************************************************************)
\* The Authorization header of a request, "" when it has none.
AuthOf(req) ==
    LET at == {i \in 1..Len(req) : req[i].name = "authorization"}
    IN  IF at = {} THEN ""
        ELSE req[CHOOSE i \in at : \A j \in at : i <= j].value
\* The request carries "Bearer K" with K an sk- key; K is BearerOf(req).
HasApiKey(req) ==
    /\ StartsWith(AuthOf(req), "Bearer ")
    /\ StartsWith(SubSeq(AuthOf(req), 8, Len(AuthOf(req))), "sk-")
BearerOf(req) == SubSeq(AuthOf(req), 8, Len(AuthOf(req)))
\* The API Key and Token collections the files hold (empty when a file holds
\* no collection).
ApiKeyCollection == IF apikeys_file.kind = "dict" THEN apikeys_file.items ELSE <<>>
TokenCollection == IF tokens_file.kind = "dict" THEN tokens_file.items ELSE <<>>
EntriesWithKey(K) ==
    {i \in 1..Len(ApiKeyCollection) :
        ApiKeyCollection[i].isdict /\ ApiKeyCollection[i].key = K}
Dispatched == mw.op = "dispatch"

\* C1: a request with Authorization "Bearer K", K an sk- key held by an API
\* Key entry whose token_name names a Token of the Token collection, reaches
\* call_next with Authorization "Bearer V", V that Token's value.
C1_Rewrite ==
    (Dispatched /\ HasApiKey(mw.request)) =>
        \A i \in EntriesWithKey(BearerOf(mw.request)) :
            Has(TokenCollection, ApiKeyCollection[i].token_name) =>
                /\ mw.called
                /\ AuthOf(mw.forwarded) =
                      "Bearer " \o Entry(TokenCollection,
                                         ApiKeyCollection[i].token_name).value
C1_Witness ==
    /\ Dispatched /\ HasApiKey(mw.request)
    /\ \E i \in EntriesWithKey(BearerOf(mw.request)) :
          Has(TokenCollection, ApiKeyCollection[i].token_name)
    /\ mw.forwarded # mw.request
    /\ Len(mw.request) = 2

\* C2: a request with an sk- key K that no API Key entry holds, or whose
\* entry names no Token and is not "auto" over a non-empty Token collection,
\* reaches call_next with its headers as they came.
Unresolvable(K) ==
    \A i \in EntriesWithKey(K) :
        /\ ~Has(TokenCollection, ApiKeyCollection[i].token_name)
        /\ ~(ApiKeyCollection[i].token_name = "auto" /\ Len(TokenCollection) > 0)
C2_MappingMiss ==
    (Dispatched /\ HasApiKey(mw.request) /\ Unresolvable(BearerOf(mw.request))) =>
        /\ mw.called
        /\ mw.forwarded = mw.request
C2_Witness ==
    /\ Dispatched /\ HasApiKey(mw.request)
    /\ EntriesWithKey(BearerOf(mw.request)) # {}
    /\ Unresolvable(BearerOf(mw.request))
    /\ Len(TokenCollection) > 0
    /\ mw.forwarded = mw.request

\* C3: a request with no Authorization header, with one that does not start
\* with "Bearer ", or with a bearer value that does not start with "sk-",
\* reaches call_next unmodified, and neither mapping file is read for it.
C3_Bypass ==
    (Dispatched /\ ~HasApiKey(mw.request)) =>
        /\ mw.called
        /\ mw.forwarded = mw.request
        /\ ~mw.read
C3_Witness ==
    /\ Dispatched
    /\ AuthOf(mw.request) = "bearer sk-K1"
    /\ EntriesWithKey("sk-K1") # {}
    /\ ~Unresolvable("sk-K1")
    /\ ~mw.read

\* C4: when a mapping file is missing, does not parse or holds no JSON
\* object, a request with an sk- key still reaches call_next, with the
\* headers it came with, and no exception leaves dispatch.
NoCollection(file) == file.kind # "dict"
C4_FailOpen ==
    (Dispatched /\ HasApiKey(mw.request)
        /\ (NoCollection(apikeys_file) \/ NoCollection(tokens_file))) =>
        /\ mw.called
        /\ mw.forwarded = mw.request
\* the lookup did raise: the key is held, and its token_name is in the list
\* tokens.json parsed to
C4_Witness ==
    /\ Dispatched /\ HasApiKey(mw.request)
    /\ tokens_file.kind = "list"
    /\ \E i \in EntriesWithKey(BearerOf(mw.request)) :
          InTokens(ApiKeyCollection[i].token_name, tokens_file)
    /\ mw.read /\ mw.called

\* C25: when the entry holding the presented key has token_name "auto" and
\* no Token is named "auto", the request is forwarded with "Bearer V", V the
\* value of the first Token of the collection, and with its original key
\* when the Token collection is empty.
C25_AutoResolution ==
    (Dispatched /\ HasApiKey(mw.request)) =>
        \A i \in EntriesWithKey(BearerOf(mw.request)) :
            (ApiKeyCollection[i].token_name = "auto"
                /\ ~Has(TokenCollection, "auto")) =>
                /\ mw.called
                /\ Len(TokenCollection) > 0 =>
                      AuthOf(mw.forwarded) = "Bearer " \o TokenCollection[1].value
                /\ Len(TokenCollection) = 0 => mw.forwarded = mw.request
C25_Witness ==
    /\ Dispatched /\ HasApiKey(mw.request)
    /\ \E i \in EntriesWithKey(BearerOf(mw.request)) :
          ApiKeyCollection[i].token_name = "auto"
    /\ ~Has(TokenCollection, "auto")
    /\ Len(TokenCollection) = 2
    /\ TokenCollection[1].value # TokenCollection[2].value
    /\ AuthOf(mw.forwarded) = "Bearer " \o TokenCollection[1].value

\* C26: when the middleware substitutes, the forwarded header list has the
\* length and order of the original, every header not named authorization
\* keeps its name and value, and each authorization header keeps its name
\* and has the value "Bearer V", V the substituted token.
Substituted == Dispatched /\ mw.called /\ mw.forwarded # mw.request
C26_HeaderFrame ==
    Substituted =>
        /\ Len(mw.forwarded) = Len(mw.request)
        /\ \E j \in 1..Len(TokenCollection) :
              \A i \in 1..Len(mw.request) :
                  IF Lower(mw.request[i].name) = "authorization"
                  THEN /\ mw.forwarded[i].name = mw.request[i].name
                       /\ mw.forwarded[i].value =
                             "Bearer " \o TokenCollection[j].value
                  ELSE mw.forwarded[i] = mw.request[i]
C26_Witness ==
    /\ Substituted
    /\ Len(mw.request) = 2
    /\ mw.request[1].name = "authorization"
    /\ mw.request[2].name = "x-request-id"
    /\ mw.forwarded[2] = mw.request[2]

(***************************************************************************)
(* Properties of the CLI and the middleware together (SpecE2E)             *)
(***************************************************************************)
\* the request in the middleware carries the key the last interactive
\* generation returned
GeneratedKeyPresented ==
    /\ ret.op = "generate_apikey_interactive" /\ ret.generated
    /\ Dispatched
    /\ AuthOf(mw.request) = "Bearer " \o ret.key

\* C27: after an interactive key generation succeeded with
\* get_active_token() = T, a request that carries the generated key, looked
\* up in the files as the store left them, is forwarded with "Bearer T",
\* also when the Active Token Reference was null or stale.
C27_GeneratedKeyWorks ==
    GeneratedKeyPresented =>
        /\ mw.called
        /\ AuthOf(mw.forwarded) = "Bearer " \o ret.token

\* C28: a key generated while the Active Token Reference named a Token t of
\* the collection is not rewritten to another Token's value once t is
\* removed: looked up in the files as remove_token(t) left them, a request
\* with that key is forwarded as it came, for every name t, "auto" included.
C28_RemovalStep ==
    (/\ ret.op = "generate_apikey_interactive" /\ ret.generated
     /\ Has(tokens, config.active_token)
     /\ ret'.op = "remove_token" /\ ret'.result
     /\ ret'.name = config.active_token) =>
        LET request == <<[name |-> "authorization",
                          value |-> "Bearer " \o ret.key]>>
            sent == Forward(request, apikeys_file', tokens_file')
        IN  sent.called /\ sent.forwarded = request
C28_NoCrossToken == [][C28_RemovalStep]_vars

(***************************************************************************)
(* Properties of a lookup that races the CLI (SpecRace)                    *)
(***************************************************************************)
\* C29: what a lookup that interleaves with writes of the two files maps
\* the key to is the key itself, or what the lookup maps it to over some
\* pair of file contents that stood together on disk at one instant between
\* its start and its end.
C29_SnapshotConsistent ==
    mw.op = "looked_up" =>
        \/ mw.value = mw.key
        \/ \E snapshot \in mw.seen :
              map_apikey_to_token(mw.key, snapshot[1], snapshot[2]).value = mw.value

(***************************************************************************)
(* Properties of the Credential Store (Spec)                                *)
(***************************************************************************)
\* The step is a call of the store operation op (the call record changed, or
\* the store did).
Called(op) ==
    /\ ret'.op = op
    /\ (ret' # ret \/ storeVars' # storeVars)
Without(d, n) == SelectSeq(d, LAMBDA e : e.name # n)
FirstOrNone(d) == IF Len(d) > 0 THEN d[1].value ELSE None

\* C5: generate_apikey(name) stores, as the entry's token_name, the name the
\* Active Token Reference holds, or "auto" when the reference is null.
C5_TokenNameOrAuto ==
    ret.op = "generate_apikey" =>
        Entry(apikeys, ret.name).token_name =
            IF config.active_token = None THEN "auto" ELSE config.active_token

\* C6: get_active_token() returns the value of the Token the Active Token
\* Reference names when it is set and that Token is present, else the first
\* Token's value, else None; and once add_token(n, v) has run and no other
\* Token exists, get_active_token() is v whatever the reference holds.
C6_ActiveToken ==
    /\ ret.op = "get_active_token" =>
          ret.result =
              IF config.active_token # None /\ Has(tokens, config.active_token)
              THEN Entry(tokens, config.active_token).value
              ELSE FirstOrNone(tokens)
    /\ (ret.op = "add_token" /\ \A i \in 1..Len(tokens) : tokens[i].name = ret.name) =>
          GetActiveToken(config, tokens) = ret.value
C6_Witness ==
    /\ ret.op = "get_active_token"
    /\ Len(tokens) = 2
    /\ config.active_token = tokens[2].name
    /\ tokens[1].value # tokens[2].value
    /\ ret.result = tokens[2].value

\* C7 as stated: ... and after the active token was removed get_active_token()
\* is never the removed value.
C7_NeverRemovedValue ==
    (ret.op = "remove_token" /\ ret.result /\ ret.name = config.active_token) =>
        GetActiveToken(config, tokens) # ret.removed

\* C7, amended: remove_token(n) returns false and changes nothing when n is
\* absent; when n is present it returns true and removes exactly that entry,
\* the others keeping their order, and leaves the Active Token Reference as
\* it was (stale when it named n). While the reference names no present
\* Token, get_active_token() is the first remaining Token's value, or None
\* when no Token remains.
C7_RemoveStep ==
    Called("remove_token") =>
        LET n == ret'.name
        IN  /\ config' = config /\ config_file' = config_file
            /\ IF Has(tokens, n)
               THEN /\ ret'.result = TRUE
                    /\ tokens' = Without(tokens, n)
                    /\ tokens_file' = JsonDump(Without(tokens, n))
               ELSE /\ ret'.result = FALSE
                    /\ storeVars' = storeVars
C7_StaleFallsBack ==
    (config.active_token # None /\ ~Has(tokens, config.active_token)) =>
        GetActiveToken(config, tokens) = FirstOrNone(tokens)
C7_Remove == [][C7_RemoveStep]_vars /\ []C7_StaleFallsBack
C7_Witness ==
    /\ ret.op = "remove_token" /\ ret.result
    /\ ret.name = config.active_token
    /\ Len(tokens) = 2
    /\ GetActiveToken(config, tokens) = tokens[1].value

\* C8: use_token(n) with n absent returns false and leaves the Active Token
\* Reference, in memory and in config.json, and the Token collection as they
\* were; with n present it returns true and the reference is n.
C8_UseStep ==
    Called("use_token") =>
        LET n == ret'.name
        IN  /\ tokens' = tokens /\ tokens_file' = tokens_file
            /\ IF Has(tokens, n)
               THEN /\ ret'.result = TRUE
                    /\ config'.active_token = n
                    /\ config_file' = JsonDump(<<config'>>)
               ELSE /\ ret'.result = FALSE
                    /\ config' = config
                    /\ config_file' = config_file
C8_UseToken == [][C8_UseStep]_vars
C8_Witness ==
    /\ ret.op = "use_token" /\ ~ret.result
    /\ Len(tokens) > 0
    /\ config.active_token # None
    /\ config_file.kind = "dict"
(***************************************************************************)
(* Properties of the streaming reader (SpecStream)                          *)
(***************************************************************************)
Returned200 == rd.status = "returned" /\ rd.code = 200
IsData(line) == StartsWith(line, "data: ")
Payload(line) == SubSeq(line, 7, Len(line))
\* a "data: " line whose payload is JSON (not the sentinel, and it parses)
IsJsonLine(line) ==
    IsData(line) /\ Payload(line) # "[DONE]" /\ JsonLoads(Payload(line)).ok
\* a "data: " line whose payload fails JSON parsing
IsMalformed(line) ==
    IsData(line) /\ Payload(line) # "[DONE]" /\ ~JsonLoads(Payload(line)).ok
\* delta.content of the first choice of a JSON line, "" where it has none
DeltaContent(line) ==
    LET j == JsonLoads(Payload(line))
    IN  IF j.type = "object" /\ j.choices_type = "list" /\ Len(j.choices) > 0
           /\ j.choices[1].delta_type = "dict" /\ j.choices[1].has_content
        THEN j.choices[1].content
        ELSE ""
\* the lines before the first "data: [DONE]"
BeforeDone(lines) ==
    IF \E i \in 1..Len(lines) : lines[i] = LineDone
    THEN SubSeq(lines, 1, (CHOOSE i \in 1..Len(lines) :
                             /\ lines[i] = LineDone
                             /\ \A j \in 1..(i - 1) : lines[j] # LineDone) - 1)
    ELSE lines
\* the non-empty text deltas of the JSON lines, in line order
RECURSIVE Deltas(_)
Deltas(lines) ==
    IF lines = <<>> THEN <<>>
    ELSE LET c == IF IsJsonLine(Head(lines)) THEN DeltaContent(Head(lines)) ELSE ""
         IN  (IF c = "" THEN <<>> ELSE <<c>>) \o Deltas(Tail(lines))
RECURSIVE Concat(_)
Concat(texts) == IF texts = <<>> THEN "" ELSE Head(texts) \o Concat(Tail(texts))

\* C9: for every sequence of lines of a 200 response, the deltas are emitted
\* in line order and the text returned is the concatenation of delta.content
\* of the first choice of every JSON line before the first [DONE].
C9_TextIsConcatenation ==
    Returned200 =>
        /\ rd.emitted = Deltas(BeforeDone(rd.lines))
        /\ rd.result = Concat(Deltas(BeforeDone(rd.lines)))

\* C10: a "data: " line whose payload fails JSON parsing is skipped: the
\* reader returns what it returns for the same lines without the malformed
\* ones (text, model, emitted deltas), and in a stream of text chunks and
\* malformed lines every chunk's text is emitted and returned.
WellFormed(lines) == SelectSeq(lines, LAMBDA l : ~IsMalformed(l))
Outcome(r) == <<r.result, r.result_model, r.emitted>>
C10_MalformedSkipped ==
    Returned200 =>
        /\ Outcome(rd) = Outcome(ReadAll(Fresh(rd.model, WellFormed(rd.lines))))
        /\ (\A i \in 1..Len(rd.lines) : rd.lines[i] \in {LineHi, LineThere, LineBad}) =>
              /\ rd.emitted = Deltas(rd.lines)
              /\ rd.result = Concat(Deltas(rd.lines))
C10_Witness ==
    /\ Returned200
    /\ rd.lines = <<LineHi, LineBad, LineThere>>
    /\ rd.emitted = <<"Hi", " there">>
    /\ rd.result = "Hi there"

\* the model field of a JSON line, Absent where the line declares none
DeclaredModel(line) ==
    IF IsJsonLine(line) /\ JsonLoads(Payload(line)).type = "object"
    THEN JsonLoads(Payload(line)).model
    ELSE Absent
\* the model the last declaring line declares, requested when none does
RECURSIVE LastModel(_, _)
LastModel(lines, requested) ==
    IF lines = <<>> THEN requested
    ELSE LET m == DeclaredModel(lines[Len(lines)])
         IN  IF m # Absent THEN m
             ELSE LastModel(SubSeq(lines, 1, Len(lines) - 1), requested)

\* C11: the actual model returned for a 200 response is the model field of
\* the last JSON data object before [DONE] that carries one, whatever else
\* the object holds, and the requested model when no object carries one.
C11_LastModelWins ==
    Returned200 => rd.result_model = LastModel(BeforeDone(rd.lines), rd.model)

\* a "data: " line whose payload is JSON of another shape than a chunk: no
\* object, "choices" that is no list, or a first choice whose delta is null
IsWrongShape(line) ==
    /\ IsJsonLine(line)
    /\ LET j == JsonLoads(Payload(line))
       IN  \/ j.type # "object"
           \/ /\ j.choices_type # Absent
              /\ Len(j.choices) > 0
              /\ j.choices_type # "list" \/ j.choices[1].delta_type # "dict"
RightShape(lines) == SelectSeq(lines, LAMBDA l : ~IsWrongShape(l))

\* C30: a "data: " line whose payload parses but has not the shape of a
\* chunk is skipped like a malformed line: the reader returns a text, never
\* None, and it returns what it returns for the same lines without the
\* wrong-shape ones.
C30_WrongShapeSkipped ==
    Returned200 =>
        /\ rd.result # None
        /\ Outcome(rd) = Outcome(ReadAll(Fresh(rd.model, RightShape(rd.lines))))

(***************************************************************************)
(* Properties of the session loop (SpecSession)                            *)
(***************************************************************************)
\* the step handled an input line (every branch but /reset records it)
HasInput(r) ==
    r.op \in {"chat", "blank", "exit", "/help", "/stream", "/clear", "/use",
              "/endpoint", "unknown"}
UserEntry(text) == [role |-> "user", content |-> text]
AssistantEntry(text) == [role |-> "assistant", content |-> text]
HasToken == GetActiveToken(config, tokens) \notin {None, ""}
ChatUrl == config.api_endpoint \o "/v1/chat/completions"
\* the history starts with h
Extends(history, h) ==
    Len(history) >= Len(h) /\ SubSeq(history, 1, Len(h)) = h

\* C12: a chat turn whose request fails with a network error (no connection,
\* timeout, a status other than 200), streaming or not, leaves the
\* Conversation History, the session model, the Token collection and the
\* configuration as they were before the line was read.
C12_FailedTurnStep ==
    (ret'.op = "chat" /\ network' # <<>>
        /\ (ret'.connect # "ok" \/ ret'.code # 200)) =>
        /\ conversation_history' = conversation_history
        /\ current_model' = current_model
        /\ tokens' = tokens
        /\ config' = config
C12_FailedTurnMutatesNothing == [][C12_FailedTurnStep]_vars

\* C13: a chat turn appends the input as a user entry and sends the whole
\* history in one request; on status 200 the returned text is appended as
\* an assistant entry directly after it, and if the model reported for the
\* turn differs from the session model the session model becomes it.
C13_TurnStep ==
    ret'.op = "chat" =>
        LET h == Append(conversation_history, UserEntry(ret'.input))
        IN  /\ Extends(conversation_history', h)
            /\ Len(network') <= 1
            /\ HasToken => (Len(network') = 1 /\ network'[1].messages = h)
            /\ (network' # <<>> /\ ret'.connect = "ok" /\ ret'.code = 200) =>
                  /\ conversation_history' = Append(h, AssistantEntry(ret'.response))
                  /\ current_model' = ret'.actual_model
C13_ChatTurn == [][C13_TurnStep]_vars

\* C14 as stated: every non-empty line that does not start with "/" is a
\* chat turn: user entry appended, request sent, and the loop goes on.
C14_EveryLineStep ==
    (HasInput(ret') /\ ret'.input # "" /\ ~StartsWith(ret'.input, "/")) =>
        /\ Extends(conversation_history',
                   Append(conversation_history, UserEntry(ret'.input)))
        /\ Len(network') = 1 /\ network'[1].url = ChatUrl
        /\ running'
C14_EveryLineIsChat == [][C14_EveryLineStep]_vars

\* C14, amended: every line that is not blank, is not exit, /exit or bye in
\* any case, and does not start with "/" is a chat turn: it is appended to
\* the Conversation History as a user entry and handed to send_message, which
\* posts the history to the chat-completion endpoint when an access token
\* resolves; the loop then goes on reading.
C14_ChatStep ==
    (HasInput(ret') /\ Strip(ret'.input) # ""
        /\ StrLower(ret'.input) \notin {"exit", "/exit", "bye"}
        /\ ~StartsWith(ret'.input, "/")) =>
        LET h == Append(conversation_history, UserEntry(ret'.input))
        IN  /\ ret'.op = "chat"
            /\ Extends(conversation_history', h)
            /\ HasToken => /\ Len(network') = 1
                           /\ network'[1].url = ChatUrl
                           /\ network'[1].messages = h
            /\ ~HasToken => network' = <<>>
            /\ running'
C14_ChatRouting == [][C14_ChatStep]_vars
C14_Witness ==
    /\ ret.op = "chat" /\ ret.input = " /help"
    /\ Len(network) = 1 /\ network[1].messages[1] = UserEntry(" /help")
    /\ conversation_history[1] = UserEntry(" /help")
    /\ running

\* C15: a line starting with "/" whose first word is no recognized command
\* changes nothing: model, streaming flag, Conversation History, Token and
\* API Key collections, Active Token Reference, endpoint and the files are
\* as before, and no request is issued.
IsUnknownLine(line) ==
    /\ StartsWith(line, "/")
    /\ StrLower(line) # "/exit"
    /\ StrLower(Split1(line)[1]) \notin Commands
C15_UnknownStep ==
    (HasInput(ret') /\ IsUnknownLine(ret'.input)) =>
        /\ sessionVars' = sessionVars
        /\ storeVars' = storeVars
        /\ network' = <<>>
        /\ running'
C15_UnknownChangesNothing == [][C15_UnknownStep]_vars
C15_Witness ==
    /\ ret.op = "unknown" /\ ret.input = "/Foo bar"
    /\ Len(conversation_history) = 2
    /\ current_model = "gpt-4-0613"
    /\ ~current_stream
    /\ Len(tokens) = 2
    /\ config.api_endpoint = "http://gw:5005"
    /\ network = <<>>

\* C16: /reset changes state only when the confirmation is affirmative:
\* confirmed, the Token and API Key collections are empty and the Active
\* Token Reference is null, in memory and in the files; declined, no
\* collection, reference, file, history, model or streaming flag changes.
C16_ResetStep ==
    ret'.op = "reset" =>
        IF ret'.confirmed
        THEN /\ tokens' = <<>> /\ tokens_file' = JsonDump(<<>>)
             /\ apikeys' = <<>> /\ apikeys_file' = JsonDump(<<>>)
             /\ config'.active_token = None
             /\ config_file' = JsonDump(<<config'>>)
        ELSE /\ storeVars' = storeVars
             /\ sessionVars' = sessionVars
C16_ResetNeedsConfirmation == [][C16_ResetStep]_vars
\* a confirmed reset of a store that held tokens (the log outlived it) and an
\* Active Token Reference
C16_Witness ==
    /\ ret.op = "reset" /\ ret.confirmed
    /\ token_txt # <<>>
    /\ config.default_model = "gpt-4"
    /\ tokens = <<>> /\ apikeys = <<>>
    /\ config_file = JsonDump(<<config>>) /\ config.active_token = None

\* C17: after a confirmed reset the session model is the configured default
\* model (what the loop starts with), streaming is on and the Conversation
\* History is empty.
C17_ResetToDefaults ==
    (ret.op = "reset" /\ ret.confirmed) =>
        /\ current_model = ConfigGet(config, "default_model", "gpt-3.5-turbo")
        /\ current_stream = TRUE
        /\ conversation_history = <<>>

\* C18: /endpoint with a URL that starts with neither "http://" nor
\* "https://": switch_endpoint returns False, no request is attempted and the
\* configured endpoint stays as it is, in memory and in config.json.
HasScheme(url) == StartsWith(url, "http://") \/ StartsWith(url, "https://")
C18_SchemeStep ==
    (ret'.op = "/endpoint" /\ ArgOf(ret'.input) # None
        /\ ~HasScheme(ArgOf(ret'.input))) =>
        /\ ret'.result = FALSE
        /\ network' = <<>>
        /\ config' = config
        /\ config_file' = config_file
C18_SchemeRejected == [][C18_SchemeStep]_vars
C18_Witness ==
    /\ ret.op = "/endpoint" /\ ret.input = "/endpoint gw:5005"
    /\ ret.health = "200"
    /\ ~ret.result
    /\ network = <<>>
    /\ config.api_endpoint = "http://localhost:5005"

\* C19: the configured endpoint is set and saved exactly when the probes
\* confirm the candidate: the health probe answers 200, or it answers 403
\* and the model-listing probe answers 403 with the RBAC signature. On every
\* other outcome the endpoint is unchanged in memory and in config.json.
ConfirmedReachable(r) ==
    /\ ArgOf(r.input) # None /\ HasScheme(ArgOf(r.input))
    /\ \/ r.health = "200"
       \/ /\ r.health = "403"
          /\ ~r.fallback.raised /\ r.fallback.code = 403 /\ r.fallback.rbac
C19_EndpointStep ==
    ret'.op = "/endpoint" =>
        IF ConfirmedReachable(ret')
        THEN /\ ret'.result
             /\ config' = [config EXCEPT
                              !.api_endpoint = RstripSlash(ArgOf(ret'.input))]
             /\ config_file' = JsonDump(<<config'>>)
        ELSE /\ ~ret'.result
             /\ config' = config
             /\ config_file' = config_file
C19_OnlyConfirmedPersists == [][C19_EndpointStep]_vars
C19_Witness ==
    /\ ret.op = "/endpoint" /\ ret.result
    /\ ret.health = "403" /\ ret.fallback.rbac
    /\ Len(network) = 2
    /\ config.api_endpoint = "http://gw:5005"
    /\ config_file = JsonDump(<<config>>)

\* C24: every step of the session loop leaves the Conversation History as
\* it was, or extends it at the end with user and assistant entries, or
\* empties it, and empties a non-empty history only on /clear or a confirmed
\* /reset; no entry is modified, reordered or removed on its own.
C24_HistoryStep ==
    \/ conversation_history' = conversation_history
    \/ /\ Len(conversation_history') > Len(conversation_history)
       /\ Extends(conversation_history', conversation_history)
       /\ \A i \in Len(conversation_history) + 1 .. Len(conversation_history') :
             conversation_history'[i].role \in {"user", "assistant"}
    \/ /\ conversation_history' = <<>>
       /\ ret'.op = "/clear" \/ (ret'.op = "reset" /\ ret'.confirmed)
C24_HistoryAppendOnly == [][C24_HistoryStep]_vars
C24_Witness ==
    /\ ret.op = "chat"
    /\ Len(conversation_history) = 3
    /\ conversation_history[3].role = "assistant"

(***************************************************************************)
(* Properties of the token log (Spec)                                      *)
(***************************************************************************)
\* C20: add_token(name, value) completes without raising whether or not the
\* directory of the token log can be created and the log written, and the
\* Token is upserted and saved.
C20_LogBestEffort ==
    ret.op = "add_token" =>
        /\ ~ret.raised
        /\ Has(tokens, ret.name) /\ Entry(tokens, ret.name).value = ret.value
        /\ tokens_file = JsonDump(tokens)

\* C23: token.txt is append-only: a step leaves it as it was or, for one
\* add_token call, adds that call's value as one line at the end; no step
\* removes or truncates lines written before.
C23_LogStep ==
    \/ token_txt' = token_txt
    \/ ret'.op = "add_token" /\ token_txt' = Append(token_txt, ret'.value)
C23_LogAppendOnly == [][C23_LogStep]_vars

(***************************************************************************)
(* Properties of start-up (SpecLoad)                                       *)
(***************************************************************************)
\* C21: for config.json, tokens.json and apikeys.json alike, a missing file,
\* an I/O error and a JSON parse error are swallowed and replaced by the
\* default or empty collection: constructing the store never fails.
C21_LoadNeverFails ==
    ret.op = "Config" =>
        /\ ~ret.raised
        /\ config_file.kind \in {"missing", "garbage", "ioerror"} =>
              config = DefaultConfig
        /\ tokens_file.kind \in {"missing", "garbage", "ioerror"} => tokens = <<>>
        /\ apikeys_file.kind \in {"missing", "garbage", "ioerror"} => apikeys = <<>>

(***************************************************************************)
(* Properties of the remote sync (SpecRemote)                              *)
(***************************************************************************)
Remote == config.api_endpoint # "http://localhost:5005"
Synced(kind) ==
    \E i \in 1..Len(network) :
        /\ network[i].method = "POST"
        /\ network[i].url = config.api_endpoint \o "/admin/sync/" \o kind

\* C22: with an endpoint other than the default local one, every operation
\* that changed the Token or API Key collection (add_token, remove_token,
\* generate_apikey, remove_apikey, a confirmed reset) sent a sync of the
\* changed collection.
C22_SyncOnEveryMutation ==
    Remote =>
        /\ (ret.op = "add_token" /\ ~ret.raised) => Synced("tokens")
        /\ (ret.op = "remove_token" /\ ret.result) => Synced("tokens")
        /\ ret.op = "generate_apikey" => Synced("apikeys")
        /\ (ret.op = "remove_apikey" /\ ret.result) => Synced("apikeys")
        /\ (ret.op = "reset" /\ ret.confirmed) =>
              (Synced("tokens") /\ Synced("apikeys"))
====
